---- MODULE Spec2Model ----
(***************************************************************************)
(* A model of the gox toolkit: the HTTP server bootstrap and lifecycle     *)
(* manager (RunHttpServer), its configuration options, the health probe    *)
(* registrar (probe.New / checkProbes), the JSON helpers (WriteError /     *)
(* errCodeFromHttp / ReadJSON), the RequestLogger middleware and the       *)
(* slice helper misc.Filter.                                               *)
(*                                                                         *)
(* net/http is modelled by its documented contract:                        *)
(*   - Server.ListenAndServe returns ErrServerClosed once Shutdown has     *)
(*     been called, returns the bind error when the listen fails, and      *)
(*     otherwise serves until Shutdown closes the listener;                *)
(*   - Server.Shutdown closes the listeners, waits for the in-flight       *)
(*     requests and returns nil, or returns the context's error when the   *)
(*     context expires first;                                              *)
(*   - ResponseWriter.WriteHeader takes effect once, Write sends an        *)
(*     implicit 200 header when none was written and appends to the body.  *)
(* log.Fatalf and zap's Logger.Fatal end the process.                      *)
(***************************************************************************)
EXTENDS Integers, Sequences, FiniteSets, TLC

VARIABLES
    options,      \* RunHttpServer's variadic options argument
    applied,      \* number of options the loop has applied so far
    cfg,          \* the *config being built
    router,       \* apiRouter: the middlewares attached with Use, in order
    handlerBuilt, \* createHandler(apiRouter) has been called
    mainPc,       \* position of the calling thread inside RunHttpServer
    goPc,         \* position of the background serving goroutine
    goErr,        \* the error ListenAndServe returned to the goroutine
    srv,          \* the http.Server: inShutdown flag and open listener
    active,       \* number of in-flight requests of srv
    ctxDone,      \* the supplied context has been cancelled
    elapsed,      \* seconds of the grace period used up by Shutdown
    shutdownErr,  \* the error srv.Shutdown returned
    fatal,        \* which fatal error ended the process, "none" if none
    logged,       \* the log messages emitted so far
    probes,       \* probe.New's variadic probes argument
    muxArg,       \* probe.New's router argument: "nil" or "mux"
    mux,          \* the patterns registered on the ServeMux New returns
    invoked,      \* indexes of the probe handlers run by the current request
    w,            \* the http.ResponseWriter of the current request
    req,          \* what the current request asked for
    phase,        \* "input" before the operation under study ran, "done" after
    ret,          \* what the function under study returned
    events        \* what the middleware under study did, in order

vars == <<options, applied, cfg, router, handlerBuilt, mainPc, goPc, goErr, srv,
          active, ctxDone, elapsed, shutdownErr, fatal, logged,
          probes, muxArg, mux, invoked, w, req, phase, ret, events>>

serverVars == <<options, applied, cfg, router, handlerBuilt, mainPc, goPc, goErr,
                srv, active, ctxDone, elapsed, shutdownErr, fatal, logged>>

handlerVars == <<probes, muxArg, mux, invoked, w, req, phase, ret, events>>

----------------------------------------------------------------------------
(* Bounds of the model *)

MaxOpts == 3
MaxReq == 2
MaxProbes == 3
MaxStatus == 599
MaxBody == 3

\* most calls a wrapped handler makes on its response writer
MaxHandlerOps == 2

\* longest list handed to Filter
MaxLen == 3

\* list elements are 1..MaxValue
MaxValue == 3

----------------------------------------------------------------------------
(* Constants of the program *)

DefaultGracefulShutdownSec == 5

DefaultPort == "8080"

StatusOK == 200
StatusBadRequest == 400
StatusUnauthorized == 401
StatusForbidden == 403
StatusConflict == 409
StatusInternalServerError == 500

Readiness == 0
Aliveness == 1

\* zap.NewNop() called on entry of RunHttpServer: a pointer no caller holds
nopLogger == "nopLogger"

DefaultMiddlewares_RecovererLast ==
    << "Timeout60s", "RequestID", "RealIP",
       "SetHeaderNosniff", "SetHeaderFrameDeny", "NoCache", "Recoverer" >>

DefaultMiddlewares ==
    << "Timeout60s", "RequestID", "RealIP", "Recoverer",
       "SetHeaderNosniff", "SetHeaderFrameDeny", "NoCache" >>

\* cors.New(DefaultCorsOption()).Handler
DefaultCors == "DefaultCors"

\* RequestLogger(cfg.logger)
RequestLogger == "RequestLogger"

----------------------------------------------------------------------------
(* The options *)

WithPort(port) == [kind |-> "WithPort", arg |-> port]
WithMiddlewares(middlewares) == [kind |-> "WithMiddlewares", arg |-> middlewares]
WithAllowedHosts(allowedHosts) == [kind |-> "WithAllowedHosts", arg |-> allowedHosts]
WithCoreOptions(corsOptions) == [kind |-> "WithCoreOptions", arg |-> corsOptions]
WithZapLogger(logger) == [kind |-> "WithZapLogger", arg |-> logger]
\* an Option of the caller's own whose function returns an error
FailingOption == [kind |-> "Failing", arg |-> "invalid option"]

CustomMiddlewares == << "mwA", "mwB" >>

OptionSet ==
    { WithPort("9090"), WithPort("7070"),
      WithMiddlewares(CustomMiddlewares),
      WithAllowedHosts(<< "example.org" >>),
      WithCoreOptions("customCors"),
      WithZapLogger("userLogger"), WithZapLogger("userNop"),
      FailingOption }

\* o(cfg): the config after the option and the error it returns
Option(o, c) ==
    CASE o.kind = "WithPort" ->
            [cfg |-> [c EXCEPT !.port = o.arg], err |-> "nil"]
      [] o.kind = "WithMiddlewares" ->
            [cfg |-> [c EXCEPT !.middlewares = o.arg], err |-> "nil"]
      [] o.kind = "WithAllowedHosts" ->
            [cfg |-> [c EXCEPT !.allowedHosts = o.arg], err |-> "nil"]
      [] o.kind = "WithCoreOptions" ->
            [cfg |-> [c EXCEPT !.corsOptions = o.arg, !.setCors = TRUE], err |-> "nil"]
      [] o.kind = "WithZapLogger" ->
            [cfg |-> [c EXCEPT !.logger = o.arg], err |-> "nil"]
      [] OTHER ->
            [cfg |-> c, err |-> o.arg]

\* cfg := &config{port: DefaultPort, logger: nopLogger}
InitialConfig ==
    [ port |-> DefaultPort,
      middlewares |-> << >>,
      allowedHosts |-> << >>,
      setCors |-> FALSE,
      corsOptions |-> "zero",
      logger |-> nopLogger ]

SeqsUpTo(S, n) == UNION { [1..k -> S] : k \in 0..n }

----------------------------------------------------------------------------
(* RunHttpServer: the calling thread *)

Alive == fatal = "none"

\* for _, o := range options { if err := o(cfg); err != nil { log.Fatalf } }
ApplyOption_ContinueOnError ==
    /\ Alive
    /\ mainPc = "options"
    /\ applied < Len(options)
    /\ cfg' = Option(options[applied + 1], cfg).cfg
    /\ applied' = applied + 1
    /\ UNCHANGED <<options, router, handlerBuilt, mainPc, goPc, goErr, srv, active,
                   ctxDone, elapsed, shutdownErr, fatal, logged>>
    /\ UNCHANGED handlerVars

ApplyOption ==
    /\ Alive
    /\ mainPc = "options"
    /\ applied < Len(options)
    /\ LET r == Option(options[applied + 1], cfg) IN
         IF r.err # "nil"
         THEN /\ fatal' = "RunFailed"
              /\ UNCHANGED <<cfg, applied>>
         ELSE /\ cfg' = r.cfg
              /\ applied' = applied + 1
              /\ UNCHANGED fatal
    /\ UNCHANGED <<options, router, handlerBuilt, mainPc, goPc, goErr, srv, active,
                   ctxDone, elapsed, shutdownErr, logged>>
    /\ UNCHANGED handlerVars

\* The middlewares RunHttpServer attaches to apiRouter, in order
RouterFor_AlwaysLog(c) ==
    (IF Len(c.middlewares) = 0 THEN DefaultMiddlewares ELSE << >>)
    \o (IF ~c.setCors THEN << DefaultCors >> ELSE << >>)
    \o << RequestLogger >>

RouterFor(c) ==
    (IF Len(c.middlewares) = 0 THEN DefaultMiddlewares ELSE << >>)
    \o (IF ~c.setCors THEN << DefaultCors >> ELSE << >>)
    \o (IF c.logger = nopLogger THEN << >> ELSE << RequestLogger >>)

\* apiRouter := chi.NewRouter() and the three Use blocks
BuildRouter ==
    /\ Alive
    /\ mainPc = "options"
    /\ applied = Len(options)
    /\ router' = RouterFor(cfg)
    /\ logged' = IF cfg.logger = nopLogger
                 THEN logged \cup {"WARN: no logger is set"}
                 ELSE logged
    /\ mainPc' = "newServer"
    /\ UNCHANGED <<options, applied, cfg, handlerBuilt, goPc, goErr, srv, active,
                   ctxDone, elapsed, shutdownErr, fatal>>
    /\ UNCHANGED handlerVars

\* srv := &http.Server{Addr: ..., Handler: createHandler(apiRouter)}
NewServer ==
    /\ Alive
    /\ mainPc = "newServer"
    /\ handlerBuilt' = TRUE
    /\ mainPc' = "spawn"
    /\ UNCHANGED <<options, applied, cfg, router, goPc, goErr, srv, active,
                   ctxDone, elapsed, shutdownErr, fatal, logged>>
    /\ UNCHANGED handlerVars

\* go func() { ... }()
SpawnServe ==
    /\ Alive
    /\ mainPc = "spawn"
    /\ goPc' = "start"
    /\ mainPc' = "wait"
    /\ UNCHANGED <<options, applied, cfg, router, handlerBuilt, goErr, srv, active,
                   ctxDone, elapsed, shutdownErr, fatal, logged>>
    /\ UNCHANGED handlerVars

\* <-ctx.Done()
WaitCtxDone_NoBlock ==
    /\ Alive
    /\ mainPc = "wait"
    /\ mainPc' = "signalled"
    /\ UNCHANGED <<options, applied, cfg, router, handlerBuilt, goPc, goErr, srv,
                   active, ctxDone, elapsed, shutdownErr, fatal, logged>>
    /\ UNCHANGED handlerVars

WaitCtxDone ==
    /\ Alive
    /\ mainPc = "wait"
    /\ ctxDone
    /\ mainPc' = "signalled"
    /\ UNCHANGED <<options, applied, cfg, router, handlerBuilt, goPc, goErr, srv,
                   active, ctxDone, elapsed, shutdownErr, fatal, logged>>
    /\ UNCHANGED handlerVars

\* logger.Info("... received a shutdown signal"); context.WithTimeout;
\* srv.Shutdown(shutdownCtx) is entered: no new connections are accepted
ShutdownBegin ==
    /\ Alive
    /\ mainPc = "signalled"
    /\ logged' = logged \cup {"Http Server received a shutdown signal"}
    /\ srv' = [inShutdown |-> TRUE, listening |-> FALSE]
    /\ elapsed' = 0
    /\ mainPc' = "draining"
    /\ UNCHANGED <<options, applied, cfg, router, handlerBuilt, goPc, goErr,
                   active, ctxDone, shutdownErr, fatal>>
    /\ UNCHANGED handlerVars

\* srv.Shutdown finds every connection idle and returns nil
ShutdownDrained ==
    /\ Alive
    /\ mainPc = "draining"
    /\ active = 0
    /\ shutdownErr' = "nil"
    /\ mainPc' = "shutdownReturned"
    /\ UNCHANGED <<options, applied, cfg, router, handlerBuilt, goPc, goErr, srv,
                   active, ctxDone, elapsed, fatal, logged>>
    /\ UNCHANGED handlerVars

\* a second of the grace period passes while srv.Shutdown waits for requests;
\* when shutdownCtx expires Shutdown returns its error
GraceTick ==
    /\ Alive
    /\ mainPc = "draining"
    /\ active > 0
    /\ elapsed < DefaultGracefulShutdownSec
    /\ elapsed' = elapsed + 1
    /\ IF elapsed + 1 = DefaultGracefulShutdownSec
       THEN /\ shutdownErr' = "context deadline exceeded"
            /\ mainPc' = "shutdownReturned"
       ELSE UNCHANGED <<shutdownErr, mainPc>>
    /\ UNCHANGED <<options, applied, cfg, router, handlerBuilt, goPc, goErr, srv,
                   active, ctxDone, fatal, logged>>
    /\ UNCHANGED handlerVars

\* if err := srv.Shutdown(shutdownCtx); err != nil { logger.Fatal }
\* logger.Info("Http Server exited properly")
CheckShutdownErr_Ignored ==
    /\ Alive
    /\ mainPc = "shutdownReturned"
    /\ logged' = logged \cup {"Http Server exited properly"}
    /\ mainPc' = "returned"
    /\ UNCHANGED fatal
    /\ UNCHANGED <<options, applied, cfg, router, handlerBuilt, goPc, goErr, srv,
                   active, ctxDone, elapsed, shutdownErr>>
    /\ UNCHANGED handlerVars

CheckShutdownErr ==
    /\ Alive
    /\ mainPc = "shutdownReturned"
    /\ IF shutdownErr # "nil"
       THEN /\ fatal' = "http server shutdown failed"
            /\ UNCHANGED <<logged, mainPc>>
       ELSE /\ logged' = logged \cup {"Http Server exited properly"}
            /\ mainPc' = "returned"
            /\ UNCHANGED fatal
    /\ UNCHANGED <<options, applied, cfg, router, handlerBuilt, goPc, goErr, srv,
                   active, ctxDone, elapsed, shutdownErr>>
    /\ UNCHANGED handlerVars

----------------------------------------------------------------------------
(* RunHttpServer: the background serving goroutine *)

\* cfg.logger.Info("Start http server", ...)
GoLogStart ==
    /\ Alive
    /\ goPc = "start"
    /\ logged' = logged \cup {"Start http server"}
    /\ goPc' = "listen"
    /\ UNCHANGED <<options, applied, cfg, router, handlerBuilt, mainPc, goErr, srv,
                   active, ctxDone, elapsed, shutdownErr, fatal>>
    /\ UNCHANGED handlerVars

\* srv.ListenAndServe() is called
ListenAndServe ==
    /\ Alive
    /\ goPc = "listen"
    /\ IF srv.inShutdown
       THEN /\ goErr' = "ErrServerClosed"
            /\ goPc' = "check"
            /\ UNCHANGED srv
       ELSE \/ /\ goErr' = "address already in use"
               /\ goPc' = "check"
               /\ UNCHANGED srv
            \/ /\ srv' = [srv EXCEPT !.listening = TRUE]
               /\ goPc' = "serving"
               /\ UNCHANGED goErr
    /\ UNCHANGED <<options, applied, cfg, router, handlerBuilt, mainPc,
                   active, ctxDone, elapsed, shutdownErr, fatal, logged>>
    /\ UNCHANGED handlerVars

\* srv.ListenAndServe() returns after Shutdown closed the listener
ServeReturn ==
    /\ Alive
    /\ goPc = "serving"
    /\ srv.inShutdown
    /\ goErr' = "ErrServerClosed"
    /\ goPc' = "check"
    /\ UNCHANGED <<options, applied, cfg, router, handlerBuilt, mainPc, srv,
                   active, ctxDone, elapsed, shutdownErr, fatal, logged>>
    /\ UNCHANGED handlerVars

\* if err != nil && err != http.ErrServerClosed { cfg.logger.Fatal }
CheckListenErr_AnyErrIsFatal ==
    /\ Alive
    /\ goPc = "check"
    /\ IF goErr # "nil"
       THEN /\ fatal' = "Start HTTP server failed"
            /\ UNCHANGED goPc
       ELSE /\ goPc' = "done"
            /\ UNCHANGED fatal
    /\ UNCHANGED <<options, applied, cfg, router, handlerBuilt, mainPc, goErr, srv,
                   active, ctxDone, elapsed, shutdownErr, logged>>
    /\ UNCHANGED handlerVars

CheckListenErr_Swallowed ==
    /\ Alive
    /\ goPc = "check"
    /\ goPc' = "done"
    /\ UNCHANGED <<options, applied, cfg, router, handlerBuilt, mainPc, goErr, srv,
                   active, ctxDone, elapsed, shutdownErr, fatal, logged>>
    /\ UNCHANGED handlerVars

CheckListenErr ==
    /\ Alive
    /\ goPc = "check"
    /\ IF goErr # "nil" /\ goErr # "ErrServerClosed"
       THEN /\ fatal' = "Start HTTP server failed"
            /\ UNCHANGED goPc
       ELSE /\ goPc' = "done"
            /\ UNCHANGED fatal
    /\ UNCHANGED <<options, applied, cfg, router, handlerBuilt, mainPc, goErr, srv,
                   active, ctxDone, elapsed, shutdownErr, logged>>
    /\ UNCHANGED handlerVars

----------------------------------------------------------------------------
(* The environment of RunHttpServer *)

\* the caller cancels the context
CancelCtx ==
    /\ Alive
    /\ ~ctxDone
    /\ ctxDone' = TRUE
    /\ UNCHANGED <<options, applied, cfg, router, handlerBuilt, mainPc, goPc, goErr,
                   srv, active, elapsed, shutdownErr, fatal, logged>>
    /\ UNCHANGED handlerVars

\* a request is accepted on the open listener and its handler starts
RequestArrives ==
    /\ Alive
    /\ srv.listening
    /\ active < MaxReq
    /\ active' = active + 1
    /\ UNCHANGED <<options, applied, cfg, router, handlerBuilt, mainPc, goPc, goErr,
                   srv, ctxDone, elapsed, shutdownErr, fatal, logged>>
    /\ UNCHANGED handlerVars

\* the handler of an in-flight request returns
HandlerReturns ==
    /\ Alive
    /\ active > 0
    /\ active' = active - 1
    /\ UNCHANGED <<options, applied, cfg, router, handlerBuilt, mainPc, goPc, goErr,
                   srv, ctxDone, elapsed, shutdownErr, fatal, logged>>
    /\ UNCHANGED handlerVars

----------------------------------------------------------------------------
(* Values of the variables a specification does not use *)

IdleHandler ==
    /\ probes = << >>
    /\ muxArg = "nil"
    /\ mux = [fresh |-> FALSE, patterns |-> {}]
    /\ invoked = << >>
    /\ w = [wroteHeader |-> FALSE, status |-> 0, contentType |-> "", body |-> ""]
    /\ req = [op |-> "none"]
    /\ phase = "input"
    /\ ret = [op |-> "none"]
    /\ events = << >>

IdleServer ==
    /\ options = << >>
    /\ applied = 0
    /\ cfg = InitialConfig
    /\ router = << >>
    /\ handlerBuilt = FALSE
    /\ mainPc = "options"
    /\ goPc = "none"
    /\ goErr = "nil"
    /\ srv = [inShutdown |-> FALSE, listening |-> FALSE]
    /\ active = 0
    /\ ctxDone = FALSE
    /\ elapsed = 0
    /\ shutdownErr = "nil"
    /\ fatal = "none"
    /\ logged = {}

----------------------------------------------------------------------------
(* Specification of RunHttpServer *)

Init ==
    /\ options \in SeqsUpTo(OptionSet, MaxOpts)
    /\ applied = 0
    /\ cfg = InitialConfig
    /\ router = << >>
    /\ handlerBuilt = FALSE
    /\ mainPc = "options"
    /\ goPc = "none"
    /\ goErr = "nil"
    /\ srv = [inShutdown |-> FALSE, listening |-> FALSE]
    /\ active = 0
    /\ ctxDone = FALSE
    /\ elapsed = 0
    /\ shutdownErr = "nil"
    /\ fatal = "none"
    /\ logged = {}
    /\ IdleHandler

Next ==
    \/ ApplyOption
    \/ BuildRouter
    \/ NewServer
    \/ SpawnServe
    \/ WaitCtxDone
    \/ ShutdownBegin
    \/ ShutdownDrained
    \/ GraceTick
    \/ CheckShutdownErr
    \/ GoLogStart
    \/ ListenAndServe
    \/ ServeReturn
    \/ CheckListenErr
    \/ CancelCtx
    \/ RequestArrives
    \/ HandlerReturns

Spec == Init /\ [][Next]_vars

----------------------------------------------------------------------------
(* Properties of RunHttpServer *)

PastWait == mainPc \in {"signalled", "draining", "shutdownReturned", "returned"}

RouterBuilt == mainPc # "options"

Running == srv.listening /\ ~srv.inShutdown

ShuttingDown == srv.inShutdown

GraceElapsed == elapsed = DefaultGracefulShutdownSec

ListenFailed == goErr = "address already in use"

MainStep ==
    \/ WaitCtxDone
    \/ ShutdownBegin
    \/ ShutdownDrained
    \/ GraceTick
    \/ HandlerReturns
    \/ CheckShutdownErr

\* C1: RunHttpServer blocks: the calling thread is never past <-ctx.Done(),
\* shutdown is never initiated and RunHttpServer has never returned, unless
\* the context has been cancelled, whatever the serving goroutine has done.
C1_BlocksUntilCancelled ==
    (PastWait \/ srv.inShutdown \/ "Http Server received a shutdown signal" \in logged)
        => ctxDone

C1_Witness ==
    /\ mainPc = "returned"
    /\ ctxDone
    /\ goPc = "done"
    /\ "Start http server" \in logged

C3_GraceIsHardDeadline ==
    /\ [](GraceElapsed =>
            /\ mainPc = "shutdownReturned"
            /\ shutdownErr # "nil"
            /\ "Http Server exited properly" \notin logged
            /\ fatal \in {"none", "http server shutdown failed"}
            /\ (Alive => ENABLED CheckShutdownErr))
    /\ [][GraceElapsed /\ Alive => (fatal' = "http server shutdown failed" \/ mainPc' = mainPc)]_vars
    /\ [][ShuttingDown => (ShuttingDown' /\ ~Running' /\ ~srv'.listening)]_vars

C3_Witness ==
    /\ GraceElapsed
    /\ active > 0
    /\ fatal = "http server shutdown failed"

HasKind(s, k) == \E i \in 1..Len(s) : s[i].kind = k

LastArg(s, k, default) ==
    IF HasKind(s, k)
    THEN s[CHOOSE i \in 1..Len(s) :
              /\ s[i].kind = k
              /\ \A j \in (i + 1)..Len(s) : s[j].kind # k].arg
    ELSE default

FirstFailing ==
    IF HasKind(options, "Failing")
    THEN CHOOSE i \in 1..Len(options) :
              /\ options[i].kind = "Failing"
              /\ \A j \in 1..(i - 1) : options[j].kind # "Failing"
    ELSE 0

AppliedPrefix == SubSeq(options, 1, applied)

\* C4: the options are applied in the order supplied, so the config holds for
\* each field the argument of the last option applied for it; the first option
\* that returns an error ends the process: no later option is applied, no
\* router or handler is built and the server never listens.
C4_OptionsInOrderFirstFailureAborts ==
    /\ applied <= Len(options)
    /\ cfg.port = LastArg(AppliedPrefix, "WithPort", DefaultPort)
    /\ cfg.logger = LastArg(AppliedPrefix, "WithZapLogger", nopLogger)
    /\ cfg.middlewares = LastArg(AppliedPrefix, "WithMiddlewares", << >>)
    /\ cfg.setCors = HasKind(AppliedPrefix, "WithCoreOptions")
    /\ RouterBuilt => applied = Len(options)
    /\ fatal = "RunFailed" => (FirstFailing # 0 /\ applied = FirstFailing - 1)
    /\ FirstFailing # 0 =>
          /\ applied < FirstFailing
          /\ mainPc = "options"
          /\ router = << >>
          /\ ~handlerBuilt
          /\ goPc = "none"
          /\ ~srv.listening
          /\ fatal \in {"none", "RunFailed"}
          /\ (Alive => (ENABLED ApplyOption /\ ~ENABLED BuildRouter))

C4_Witness ==
    /\ fatal = "RunFailed"
    /\ applied >= 1
    /\ applied + 1 < Len(options)
    /\ cfg.port # DefaultPort

\* the router's chain without the CORS and the request-logging middleware
Chain == SelectSeq(router, LAMBDA m : m \notin {DefaultCors, RequestLogger})

\* C5: custom middleware replaces the defaults: with a non-empty list given
\* through WithMiddlewares the router's chain is that list, in order, and holds
\* no default middleware; with none given it is the default chain.
C5_CustomMiddlewareReplacesDefaults ==
    RouterBuilt =>
        IF Len(cfg.middlewares) > 0
        THEN Chain = cfg.middlewares
        ELSE Chain = DefaultMiddlewares

Count(s, m) == Cardinality({i \in 1..Len(s) : s[i] = m})

\* C6: the request-logging middleware is attached exactly once when some
\* logger was supplied through WithZapLogger and not at all otherwise, and the
\* "no logger is set" warning is emitted exactly when none was supplied.
C6_LoggingMiddlewareIffLogger ==
    /\ ~RouterBuilt => (router = << >> /\ "WARN: no logger is set" \notin logged)
    /\ RouterBuilt =>
          IF HasKind(options, "WithZapLogger")
          THEN /\ Count(router, RequestLogger) = 1
               /\ "WARN: no logger is set" \notin logged
          ELSE /\ Count(router, RequestLogger) = 0
               /\ "WARN: no logger is set" \in logged

C6_Witness ==
    /\ RouterBuilt
    /\ cfg.logger = "userLogger"
    /\ Count(router, RequestLogger) = 1

\* C7 as stated: a failed listen is reported while the calling thread is still
\* blocked waiting for cancellation, and RunHttpServer does not return normally.
C7_Original ==
    /\ ListenFailed => (~srv.listening /\ mainPc # "returned")
    /\ fatal = "Start HTTP server failed" => mainPc = "wait"

\* C7 amended: a failed listen is fatal: the server never enters Running, the
\* error is never swallowed (the goroutine's only step is the fatal report) and
\* it is the only start failure; as long as the context has not been cancelled
\* the calling thread is still blocked waiting for cancellation, so
\* RunHttpServer has not returned.
C7_ListenFailureIsFatal ==
    /\ ListenFailed =>
          /\ ~srv.listening
          /\ active = 0
          /\ goPc = "check"
          /\ (Alive => ENABLED CheckListenErr)
          /\ (~ctxDone => mainPc = "wait")
    /\ fatal = "Start HTTP server failed" => ListenFailed

C7_Witness ==
    /\ fatal = "Start HTTP server failed"
    /\ mainPc = "wait"
    /\ ~ctxDone

----------------------------------------------------------------------------
(* http.ResponseWriter, as the handlers use it *)

\* httptest.NewRecorder(): nothing written yet
NewRecorder == [wroteHeader |-> FALSE, status |-> 0, contentType |-> "", body |-> ""]

\* w.WriteHeader(code): only the first call sets the status
WriteHeader(rw, code) ==
    IF rw.wroteHeader
    THEN rw
    ELSE [rw EXCEPT !.wroteHeader = TRUE, !.status = code]

\* w.Write(data): sends the 200 header if none was written, appends the data
Write(rw, data) ==
    LET h == WriteHeader(rw, StatusOK)
    IN  [h EXCEPT !.body = h.body \o data]

----------------------------------------------------------------------------
(* probe.New and checkProbes *)

WithProbe(probeType, handler) == [probe |-> probeType, handler |-> handler]

\* a handler is modelled by the error it returns, "nil" for none
ProbeSet ==
    { WithProbe(t, e) : t \in {Readiness, Aliveness},
                        e \in {"nil", "not ready", "db down"} }

RECURSIVE checkProbesFrom_NoKindFilter(_, _, _)
checkProbesFrom_NoKindFilter(ps, t, i) ==
    IF i > Len(ps)
    THEN [err |-> "nil", invoked |-> << >>]
    ELSE IF ps[i].handler # "nil"
         THEN [err |-> ps[i].handler, invoked |-> << i >>]
         ELSE LET rest == checkProbesFrom_NoKindFilter(ps, t, i + 1)
              IN  [err |-> rest.err, invoked |-> << i >> \o rest.invoked]

\* the loop of checkProbes from the i-th probe on: the error returned and the
\* indexes of the handlers it ran
RECURSIVE checkProbesFrom(_, _, _)
checkProbesFrom(ps, t, i) ==
    IF i > Len(ps)
    THEN [err |-> "nil", invoked |-> << >>]
    ELSE IF ps[i].probe # t
         THEN checkProbesFrom(ps, t, i + 1)
         ELSE IF ps[i].handler # "nil"
              THEN [err |-> ps[i].handler, invoked |-> << i >>]
              ELSE LET rest == checkProbesFrom(ps, t, i + 1)
                   IN  [err |-> rest.err, invoked |-> << i >> \o rest.invoked]

checkProbes_NoKindFilter(ps, t) == checkProbesFrom_NoKindFilter(ps, t, 1)

\* checkProbes(probes, t)
checkProbes(ps, t) == checkProbesFrom(ps, t, 1)

\* fmt.Sprintf(`{"status": "%s"}`, err)
SprintfStatus(err) == "{\"status\": \"" \o err \o "\"}"

\* the handler New registers for /ready
readyHandler(rw, ps) ==
    LET r  == checkProbes(ps, Readiness)
        w1 == IF r.err # "nil"
              THEN Write(WriteHeader(rw, StatusInternalServerError), SprintfStatus(r.err))
              ELSE rw
        w2 == Write(WriteHeader(w1, StatusOK), "{\"status\": \"ready\"}")
    IN  [w |-> w2, invoked |-> r.invoked]

\* the handler New registers for /alive
aliveHandler(rw, ps) ==
    LET r  == checkProbes(ps, Aliveness)
        w1 == IF r.err # "nil"
              THEN Write(WriteHeader(rw, StatusInternalServerError), SprintfStatus(r.err))
              ELSE rw
        w2 == Write(WriteHeader(w1, StatusOK), "{\"status\": \"alive\"}")
    IN  [w |-> w2, invoked |-> r.invoked]

\* probe.New(router, probes...): a nil router is replaced by a new ServeMux,
\* then both patterns are registered on it
New ==
    /\ phase = "input"
    /\ req.op = "none"
    /\ mux' = [fresh |-> (muxArg = "nil"), patterns |-> {"/ready", "/alive"}]
    /\ phase' = "serving"
    /\ UNCHANGED <<probes, muxArg, invoked, w, req, ret, events>>
    /\ UNCHANGED serverVars

\* probeHandler.ServeHTTP(httptest.NewRecorder(), GET /ready)
ServeReady ==
    /\ phase \in {"serving", "served"}
    /\ "/ready" \in mux.patterns
    /\ LET r == readyHandler(NewRecorder, probes) IN
         /\ w' = r.w
         /\ invoked' = r.invoked
    /\ req' = [op |-> "GET", path |-> "/ready"]
    /\ phase' = "served"
    /\ UNCHANGED <<probes, muxArg, mux, ret, events>>
    /\ UNCHANGED serverVars

\* probeHandler.ServeHTTP(httptest.NewRecorder(), GET /alive)
ServeAlive ==
    /\ phase \in {"serving", "served"}
    /\ "/alive" \in mux.patterns
    /\ LET r == aliveHandler(NewRecorder, probes) IN
         /\ w' = r.w
         /\ invoked' = r.invoked
    /\ req' = [op |-> "GET", path |-> "/alive"]
    /\ phase' = "served"
    /\ UNCHANGED <<probes, muxArg, mux, ret, events>>
    /\ UNCHANGED serverVars

ProbeInit ==
    /\ IdleServer
    /\ probes \in SeqsUpTo(ProbeSet, MaxProbes)
    /\ muxArg \in {"nil", "mux"}
    /\ mux = [fresh |-> FALSE, patterns |-> {}]
    /\ invoked = << >>
    /\ w = NewRecorder
    /\ req = [op |-> "none"]
    /\ phase = "input"
    /\ ret = [op |-> "none"]
    /\ events = << >>

ProbeNext ==
    \/ New
    \/ ServeReady
    \/ ServeAlive

ProbeSpec == ProbeInit /\ [][ProbeNext]_vars

----------------------------------------------------------------------------
(* Properties of the probe endpoints *)

Served == phase = "served"

KindOf(path) == IF path = "/ready" THEN Readiness ELSE Aliveness

OkBody(path) ==
    IF path = "/ready" THEN "{\"status\": \"ready\"}" ELSE "{\"status\": \"alive\"}"

Fails(k) == \E i \in 1..Len(probes) : probes[i].probe = k /\ probes[i].handler # "nil"

FirstFailure(k) ==
    CHOOSE i \in 1..Len(probes) :
        /\ probes[i].probe = k
        /\ probes[i].handler # "nil"
        /\ \A j \in 1..(i - 1) : ~(probes[j].probe = k /\ probes[j].handler # "nil")

\* C8: a request to /ready (/alive) answers 500 with body exactly
\* {"status": "<error of the first failing probe of the kind>"} when a probe
\* of the kind fails, and 200 with body exactly {"status": "ready"}
\* ({"status": "alive"}) when none fails.
C8_ProbeResponseExact ==
    Served =>
        IF Fails(KindOf(req.path))
        THEN /\ w.status = StatusInternalServerError
             /\ w.body = "{\"status\": \"" \o probes[FirstFailure(KindOf(req.path))].handler \o "\"}"
        ELSE /\ w.status = StatusOK
             /\ w.body = OkBody(req.path)

\* C9: the status of a probe endpoint depends only on the probes of its own
\* kind: it is 500 exactly when one of them fails and 200 otherwise (so always
\* 200 with no probe of the kind), only handlers of that kind are run, in
\* registration order up to the first failure, and New serves both endpoints
\* also when it was given a nil router.
C9_StatusDependsOnOwnKind ==
    /\ phase # "input" => mux.patterns = {"/ready", "/alive"}
    /\ Served =>
          LET k == KindOf(req.path) IN
          /\ w.status = (IF Fails(k) THEN StatusInternalServerError ELSE StatusOK)
          /\ \A n \in 1..Len(invoked) : probes[invoked[n]].probe = k
          /\ \A n \in 1..(Len(invoked) - 1) : invoked[n] < invoked[n + 1]
          /\ \A i \in 1..Len(probes) :
                (probes[i].probe = k /\ (~Fails(k) \/ i <= FirstFailure(k)))
                    <=> (\E n \in 1..Len(invoked) : invoked[n] = i)

C9_Witness ==
    /\ Served
    /\ req.path = "/alive"
    /\ muxArg = "nil"
    /\ w.status = StatusOK
    /\ Fails(Readiness)
    /\ Len(invoked) = 1

----------------------------------------------------------------------------
(* WriteJSON, WriteError and errCodeFromHttp *)

\* a Message{Code, Message} as json.NewEncoder(w).Encode writes it; the codes
\* and messages of the model hold no character that JSON escapes
EncodeMessage(v) ==
    "{\"code\":\"" \o v.Code \o "\",\"message\":\"" \o v.Message \o "\"}\n"

WriteJSON(rw, code, v) ==
    LET h == WriteHeader([rw EXCEPT !.contentType = "application/json"], code)
    IN  Write(h, EncodeMessage(v))

errCodeFromHttp_NoConflictEntry(code) ==
    LET codeMap == (StatusBadRequest :> "ErrBadRequest")
                   @@ (StatusInternalServerError :> "ErrInternalServer")
                   @@ (StatusUnauthorized :> "ErrUnauthorized")
                   @@ (StatusForbidden :> "ErrForbidden")
    IN  IF code \in DOMAIN codeMap THEN codeMap[code] ELSE "ErrInternalServer"

errCodeFromHttp(code) ==
    LET codeMap == (StatusBadRequest :> "ErrBadRequest")
                   @@ (StatusInternalServerError :> "ErrInternalServer")
                   @@ (StatusUnauthorized :> "ErrUnauthorized")
                   @@ (StatusConflict :> "ErrAlreadyExist")
                   @@ (StatusForbidden :> "ErrForbidden")
    IN  IF code \in DOMAIN codeMap THEN codeMap[code] ELSE "ErrInternalServer"

WriteError(rw, code, message) ==
    WriteJSON(rw, code, [Code |-> errCodeFromHttp(code), Message |-> message])

Statuses == StatusOK..MaxStatus

Messages == {"dup", "", "no such user"}

\* a handler calls WriteError(w, code, message) on a fresh response
CallWriteError ==
    /\ phase = "input"
    /\ req.op = "WriteError"
    /\ w' = WriteError(w, req.code, req.message)
    /\ phase' = "done"
    /\ UNCHANGED <<probes, muxArg, mux, invoked, req, ret, events>>
    /\ UNCHANGED serverVars

WriteErrorInit ==
    /\ IdleServer
    /\ probes = << >>
    /\ muxArg = "nil"
    /\ mux = [fresh |-> FALSE, patterns |-> {}]
    /\ invoked = << >>
    /\ w = NewRecorder
    /\ req \in [op : {"WriteError"}, code : Statuses, message : Messages]
    /\ phase = "input"
    /\ ret = [op |-> "none"]
    /\ events = << >>

WriteErrorNext == CallWriteError

WriteErrorSpec == WriteErrorInit /\ [][WriteErrorNext]_vars

----------------------------------------------------------------------------
(* Properties of WriteError *)

\* C10: WriteError(s, m) answers with status s and the body {code, message}
\* whose message is m and whose code is ErrBadRequest for 400, ErrUnauthorized
\* for 401, ErrForbidden for 403, ErrAlreadyExist for 409 and ErrInternalServer
\* for 500 and every other status.
C10_WriteErrorMapping ==
    (phase = "done" /\ req.op = "WriteError") =>
        LET code == CASE req.code = 400 -> "ErrBadRequest"
                      [] req.code = 401 -> "ErrUnauthorized"
                      [] req.code = 403 -> "ErrForbidden"
                      [] req.code = 409 -> "ErrAlreadyExist"
                      [] OTHER -> "ErrInternalServer"
        IN  /\ w.status = req.code
            /\ w.contentType = "application/json"
            /\ w.body = "{\"code\":\"" \o code \o "\",\"message\":\"" \o req.message \o "\"}\n"

C10_Witness ==
    /\ phase = "done"
    /\ req = [op |-> "WriteError", code |-> 409, message |-> "dup"]
    /\ w.status = 409
    /\ w.body = "{\"code\":\"ErrAlreadyExist\",\"message\":\"dup\"}\n"

----------------------------------------------------------------------------
(* ReadJSON *)

\* A request body is a sequence of items: a JSON object (its fields in order,
\* each with the JSON type of its value), another JSON value, white space,
\* malformed text, a value cut short by the end of the body, or the point at
\* which reading the body fails. Offsets count items.
Field(name, type) == [name |-> name, type |-> type]

Object(fields) == [kind |-> "object", fields |-> fields]

BodyItems ==
    { Object(<< >>),
      Object(<< Field("a", "number") >>),
      Object(<< Field("a", "string") >>),
      Object(<< Field("a", "number"), Field("b", "number") >>),
      Object(<< Field("b", "number") >>),
      [kind |-> "scalar"],
      [kind |-> "space"],
      [kind |-> "malformed"],
      [kind |-> "truncated"],
      [kind |-> "tooLarge"],
      [kind |-> "readError"] }

\* a value cut short by the end of the body is the last item of the body
Bodies ==
    { b \in SeqsUpTo(BodyItems, MaxBody) :
        \A i \in 1..Len(b) : b[i].kind = "truncated" => i = Len(b) }

\* the struct a target points to: its declared fields and their JSON types
Targets == { [a |-> "number"], [a |-> "number", b |-> "number"] }

\* &struct{}{}
EmptyStruct == << >>

\* json.NewDecoder(r.Body): DisallowUnknownFields is never called
NewDecoder(body) == [buf |-> body, pos |-> 1, disallowUnknownFields |-> FALSE]

NoError == [type |-> "nil"]

\* the first error the decoder saves while it stores an object's fields
RECURSIVE FieldError(_, _, _, _, _)
FieldError(fields, i, target, disallow, offset) ==
    IF i > Len(fields)
    THEN NoError
    ELSE LET f == fields[i] IN
         IF f.name \notin DOMAIN target
         THEN IF disallow
              THEN [type |-> "unknownField", field |-> f.name]
              ELSE FieldError(fields, i + 1, target, disallow, offset)
         ELSE IF target[f.name] # f.type
              THEN [type |-> "UnmarshalTypeError", field |-> f.name, offset |-> offset]
              ELSE FieldError(fields, i + 1, target, disallow, offset)

RECURSIVE SkipSpace(_, _)
SkipSpace(buf, pos) ==
    IF pos <= Len(buf) /\ buf[pos].kind = "space"
    THEN SkipSpace(buf, pos + 1)
    ELSE pos

\* dec.Decode(&target): the error and the decoder afterwards
Decode(dec, target) ==
    LET pos == SkipSpace(dec.buf, dec.pos) IN
    IF pos > Len(dec.buf)
    THEN [err |-> [type |-> "EOF"], dec |-> [dec EXCEPT !.pos = pos]]
    ELSE LET item == dec.buf[pos]
             err  == CASE item.kind = "malformed" ->
                            [type |-> "SyntaxError", offset |-> pos]
                       [] item.kind = "truncated" ->
                            [type |-> "ErrUnexpectedEOF"]
                       [] item.kind = "tooLarge" ->
                            [type |-> "error", text |-> "http: request body too large"]
                       [] item.kind = "readError" ->
                            [type |-> "error", text |-> "read: connection reset by peer"]
                       [] item.kind = "scalar" ->
                            [type |-> "UnmarshalTypeError", field |-> "", offset |-> pos]
                       [] OTHER ->
                            FieldError(item.fields, 1, target, dec.disallowUnknownFields, pos)
         IN  [err |-> err, dec |-> [dec EXCEPT !.pos = pos + 1]]

Quote(str) == "\"" \o str \o "\""

Result(status, err) == [status |-> status, err |-> err]

ReadJSON_NoSecondDecode(body, target) ==
    LET first == Decode(NewDecoder(body), target)
        err   == first.err
    IN  IF err.type # "nil"
        THEN Result(StatusBadRequest, "request body contains badly-formed JSON")
        ELSE Result(StatusOK, "nil")

ReadJSON(body, target) ==
    LET first == Decode(NewDecoder(body), target)
        err   == first.err
    IN  IF err.type # "nil"
        THEN CASE err.type = "SyntaxError" ->
                    Result(StatusBadRequest,
                           "request body contains badly-formed JSON (at position "
                               \o ToString(err.offset) \o ")")
               [] err.type = "ErrUnexpectedEOF" ->
                    Result(StatusBadRequest, "request body contains badly-formed JSON")
               [] err.type = "UnmarshalTypeError" ->
                    Result(StatusBadRequest,
                           "request body contains an invalid value for the "
                               \o Quote(err.field) \o " field (at position "
                               \o ToString(err.offset) \o ")")
               [] err.type = "unknownField" ->
                    Result(StatusBadRequest,
                           "request body contains unknown field " \o Quote(err.field))
               [] err.type = "EOF" ->
                    Result(StatusBadRequest, "request body must not be empty")
               [] err.type = "error" /\ err.text = "http: request body too large" ->
                    Result(StatusBadRequest, err.text)
               [] OTHER ->
                    Result(StatusBadRequest, "Internal Server Error")
        ELSE LET second == Decode(first.dec, EmptyStruct) IN
             IF second.err.type # "EOF"
             THEN Result(StatusBadRequest,
                         "request body must only contain a single JSON object")
             ELSE Result(StatusOK, "nil")

\* a handler calls ReadJSON(r, target)
CallReadJSON ==
    /\ phase = "input"
    /\ req.op = "ReadJSON"
    /\ ret' = ReadJSON(req.body, req.target)
    /\ phase' = "done"
    /\ UNCHANGED <<probes, muxArg, mux, invoked, w, req, events>>
    /\ UNCHANGED serverVars

ReadJSONInit ==
    /\ IdleServer
    /\ probes = << >>
    /\ muxArg = "nil"
    /\ mux = [fresh |-> FALSE, patterns |-> {}]
    /\ invoked = << >>
    /\ w = NewRecorder
    /\ req \in [op : {"ReadJSON"}, body : Bodies, target : Targets]
    /\ phase = "input"
    /\ ret = [op |-> "none"]
    /\ events = << >>

ReadJSONNext == CallReadJSON

ReadJSONSpec == ReadJSONInit /\ [][ReadJSONNext]_vars

----------------------------------------------------------------------------
(* Properties of ReadJSON *)

ReadJSONDone == phase = "done" /\ req.op = "ReadJSON"

\* the items of the request body that are not white space
Content == SelectSeq(req.body, LAMBDA item : item.kind # "space")

UnknownFields(item) ==
    { item.fields[i].name : i \in 1..Len(item.fields) } \ DOMAIN req.target

\* an object whose declared fields all hold a value of the declared type
Decodable(item) ==
    /\ item.kind = "object"
    /\ \A i \in 1..Len(item.fields) :
          item.fields[i].name \in DOMAIN req.target
              => req.target[item.fields[i].name] = item.fields[i].type

\* C11: ReadJSON rejects unknown fields: when the body is one well-formed JSON
\* object with a field the target does not declare, ReadJSON returns 400 with
\* an error that cites that field, never success.
C11_RejectsUnknownFields ==
    (/\ ReadJSONDone
     /\ Len(Content) = 1
     /\ Content[1].kind = "object"
     /\ UnknownFields(Content[1]) # {})
        => /\ ret.status = StatusBadRequest
           /\ \E f \in UnknownFields(Content[1]) :
                 ret.err = "request body contains unknown field \"" \o f \o "\""

\* C12: ReadJSON returns 200 with a nil error exactly when the body holds one
\* decodable JSON value and nothing after it; an empty body gives 400 "request
\* body must not be empty", anything after a decodable first value gives 400
\* "request body must only contain a single JSON object", and every other
\* outcome is 400 with a non-nil error.
C12_OkIffSingleValue ==
    ReadJSONDone =>
        /\ ret.status \in {StatusOK, StatusBadRequest}
        /\ ret.status = StatusOK <=> ret.err = "nil"
        /\ ret.status = StatusOK <=> (Len(Content) = 1 /\ Decodable(Content[1]))
        /\ Len(Content) = 0 => ret.err = "request body must not be empty"
        /\ (Len(Content) > 1 /\ Decodable(Content[1]))
              => ret.err = "request body must only contain a single JSON object"

C12_Witness ==
    /\ ReadJSONDone
    /\ Len(Content) = 2
    /\ Decodable(Content[1])
    /\ Decodable(Content[2])
    /\ ret = [status |-> 400,
              err |-> "request body must only contain a single JSON object"]

----------------------------------------------------------------------------
(* The middleware chain of apiRouter *)

\* the handler createHandler's routes end in
Endpoint == [mw |-> "handler"]

\* apiRouter.Use(m1, ..., mn) followed by serving: m1(m2(...mn(endpoint)))
RECURSIVE chain(_, _)
chain(middlewares, endpoint) ==
    IF Len(middlewares) = 0
    THEN endpoint
    ELSE [mw |-> Head(middlewares), next |-> chain(Tail(middlewares), endpoint)]

\* the order in which a request enters the middlewares and the handler
RECURSIVE ServeOrder(_)
ServeOrder(h) ==
    IF "next" \in DOMAIN h
    THEN << h.mw >> \o ServeOrder(h.next)
    ELSE << h.mw >>

----------------------------------------------------------------------------
(* Properties of the middleware chain *)

\* the default configuration with a logger set
DefaultWithLogger ==
    /\ RouterBuilt
    /\ Len(cfg.middlewares) = 0
    /\ ~cfg.setCors
    /\ cfg.logger # nopLogger

Order == ServeOrder(chain(router, Endpoint))

Position(m) == CHOOSE i \in 1..Len(Order) : Order[i] = m

\* m wraps n: a request enters m before it enters n
Wraps(m, n) == Position(m) < Position(n)

Attached == { Order[i] : i \in 1..Len(Order) }

\* C13 as stated: in the default configuration with a logger set, the timeout
\* and the panic-recovery middleware wrap every other middleware and the
\* handler: none of the others runs outside either of the two.
C13_Original ==
    DefaultWithLogger =>
        \A m \in Attached \ {"Timeout60s", "Recoverer"} :
            /\ Wraps("Timeout60s", m)
            /\ Wraps("Recoverer", m)

\* C13 amended: in the default configuration with a logger set, a request
\* enters the middlewares in attachment order; the timeout middleware wraps
\* every other middleware and the handler; the panic-recovery middleware wraps
\* the security headers, no-cache, CORS, request logging and the handler, and
\* exactly request-ID and real-IP run outside it (inside the timeout).
C13_TimeoutWrapsAllRecovererWrapsRest ==
    DefaultWithLogger =>
        /\ Order = router \o << "handler" >>
        /\ Attached = { "Timeout60s", "RequestID", "RealIP", "Recoverer",
                        "SetHeaderNosniff", "SetHeaderFrameDeny", "NoCache",
                        DefaultCors, RequestLogger, "handler" }
        /\ \A m \in Attached \ {"Timeout60s"} : Wraps("Timeout60s", m)
        /\ { m \in Attached : Wraps(m, "Recoverer") }
              = {"Timeout60s", "RequestID", "RealIP"}
        /\ \A m \in {"SetHeaderNosniff", "SetHeaderFrameDeny", "NoCache",
                     DefaultCors, RequestLogger, "handler"} : Wraps("Recoverer", m)

C13_Witness ==
    /\ DefaultWithLogger
    /\ srv.listening
    /\ active > 0
    /\ Wraps("RequestID", "Recoverer")
    /\ Wraps("Recoverer", RequestLogger)

----------------------------------------------------------------------------
(* RequestLogger *)

\* middleware.NewWrapResponseWriter(w, r.ProtoMajor)
NewWrapResponseWriter(rw) == [w |-> rw, wroteHeader |-> FALSE, code |-> 0]

\* ww.WriteHeader(code): records the first code and passes it on
WrapWriteHeader(ww, code) ==
    IF ww.wroteHeader
    THEN ww
    ELSE [ww EXCEPT !.wroteHeader = TRUE, !.code = code, !.w = WriteHeader(ww.w, code)]

\* ww.Write(data): records the implicit 200 and passes the data on
WrapWrite(ww, data) ==
    LET h == WrapWriteHeader(ww, StatusOK)
    IN  [h EXCEPT !.w = Write(h.w, data)]

\* ww.Status()
Status(ww) == ww.code

\* the wrapped handler: the calls it makes on its response writer, then
\* whether it returns or panics
HandlerCodes == {StatusOK, 404, 499, StatusInternalServerError, 503}

HandlerOps ==
    [op : {"WriteHeader"}, code : HandlerCodes] \cup {[op |-> "Write", data |-> "x"]}

NextHandlers == [ops : SeqsUpTo(HandlerOps, MaxHandlerOps), end : {"return", "panic"}]

\* next.ServeHTTP(ww, r) up to the handler's return or panic
RECURSIVE ServeHTTP(_, _)
ServeHTTP(ops, ww) ==
    IF Len(ops) = 0
    THEN ww
    ELSE LET o == Head(ops)
         IN  ServeHTTP(Tail(ops),
                       IF o.op = "WriteHeader"
                       THEN WrapWriteHeader(ww, o.code)
                       ELSE WrapWrite(ww, o.data))

LogLine(level, r, ww) ==
    [ev |-> "log", level |-> level,
     msg |-> "request handled: " \o r.method \o " " \o r.path,
     code |-> Status(ww), query |-> r.query]

\* the handler RequestLogger(logger)(next) serving request r on writer rw;
\* a panic of next unwinds through it: nothing is deferred or recovered
RequestLoggerHandler(next, rw, r) ==
    LET ww == ServeHTTP(next.ops, NewWrapResponseWriter(rw))
        called == << [ev |-> "next"] >>
    IN  IF next.end = "panic"
        THEN [w |-> ww.w, events |-> called, panicked |-> TRUE]
        ELSE [w |-> ww.w,
              events |-> Append(called,
                  LogLine(IF Status(ww) >= StatusInternalServerError
                          THEN "error" ELSE "info", r, ww)),
              panicked |-> FALSE]

\* net/http after the handler chain returned: a response without a header
\* is sent with status 200
finishRequest(rw) == WriteHeader(rw, StatusOK)

\* one request served through the logging middleware
CallRequestLogger ==
    /\ phase = "input"
    /\ req.op = "RequestLogger"
    /\ LET r == RequestLoggerHandler(req.next, w, req)
       IN  /\ w' = IF r.panicked THEN r.w ELSE finishRequest(r.w)
           /\ events' = r.events
           /\ phase' = IF r.panicked THEN "panicked" ELSE "done"
    /\ UNCHANGED <<probes, muxArg, mux, invoked, req, ret>>
    /\ UNCHANGED serverVars

RequestLoggerInit ==
    /\ IdleServer
    /\ probes = << >>
    /\ muxArg = "nil"
    /\ mux = [fresh |-> FALSE, patterns |-> {}]
    /\ invoked = << >>
    /\ w = NewRecorder
    /\ req \in [op : {"RequestLogger"}, method : {"GET"}, path : {"/items"},
                query : {"", "page=2"}, next : NextHandlers]
    /\ phase = "input"
    /\ ret = [op |-> "none"]
    /\ events = << >>

RequestLoggerNext == CallRequestLogger

RequestLoggerSpec == RequestLoggerInit /\ [][RequestLoggerNext]_vars

----------------------------------------------------------------------------
(* Properties of RequestLogger *)

\* the request went through the middleware and the wrapped handler returned
LoggerReturned == req.op = "RequestLogger" /\ phase = "done"

EventsOf(kind) == { i \in 1..Len(events) : events[i].ev = kind }

\* the wrapped handler is invoked exactly once, and one log line follows it
InvokedOnceThenOneLine ==
    LoggerReturned =>
        /\ Len(events) = 2
        /\ events[1].ev = "next"
        /\ events[2].ev = "log"

\* the line is at error level iff the response status is 500 or higher
LevelByStatus ==
    LoggerReturned =>
        \A i \in EventsOf("log") :
            /\ events[i].level \in {"error", "info"}
            /\ events[i].level = "error" <=> w.status >= StatusInternalServerError

\* the line carries the status code of the response
CarriesFinalStatus ==
    LoggerReturned =>
        \A i \in EventsOf("log") : events[i].code = w.status

\* C14: for every request through the request-logging middleware whose
\* wrapped handler returns, the handler is invoked exactly once, and after it
\* returns exactly one log line is emitted that carries the final status code,
\* at error level iff that status is 500 or higher and at info level otherwise.
C14_LogsOnceWithFinalStatus ==
    /\ InvokedOnceThenOneLine
    /\ LevelByStatus
    /\ CarriesFinalStatus

----------------------------------------------------------------------------
(* misc.Filter *)

Values == 1..MaxValue

\* a slice: nil or not, and its elements
NilSlice == [nil |-> TRUE, elems |-> << >>]

Slice(elems) == [nil |-> FALSE, elems |-> elems]

\* make([]T, 0)
MakeEmpty == Slice(<< >>)

\* append(out, v)
append(out, v) == Slice(Append(out.elems, v))

\* fn(v): a predicate is given by the values it accepts
Apply(fn, v) == v \in fn

\* the range loop from element i on; list is only read
RECURSIVE FilterLoop(_, _, _, _)
FilterLoop(list, fn, i, out) ==
    IF i > Len(list.elems)
    THEN [out |-> out, list |-> list]
    ELSE FilterLoop(list, fn, i + 1,
                    IF Apply(fn, list.elems[i]) THEN append(out, list.elems[i]) ELSE out)

Filter_VarOut(list, fn) == FilterLoop(list, fn, 1, NilSlice)

Filter(list, fn) == FilterLoop(list, fn, 1, MakeEmpty)

Lists == {NilSlice} \cup { Slice(e) : e \in SeqsUpTo(Values, MaxLen) }

Predicates == SUBSET Values

CallFilter ==
    /\ phase = "input"
    /\ req.op = "Filter"
    /\ LET r == Filter(req.list, req.fn)
       IN  ret' = [op |-> "Filter", out |-> r.out, list |-> r.list]
    /\ phase' = "done"
    /\ UNCHANGED <<probes, muxArg, mux, invoked, w, req, events>>
    /\ UNCHANGED serverVars

FilterInit ==
    /\ IdleServer
    /\ probes = << >>
    /\ muxArg = "nil"
    /\ mux = [fresh |-> FALSE, patterns |-> {}]
    /\ invoked = << >>
    /\ w = NewRecorder
    /\ req \in [op : {"Filter"}, list : Lists, fn : Predicates]
    /\ phase = "input"
    /\ ret = [op |-> "none"]
    /\ events = << >>

FilterNext == CallFilter

FilterSpec == FilterInit /\ [][FilterNext]_vars

----------------------------------------------------------------------------
(* Properties of Filter *)

FilterDone == req.op = "Filter" /\ phase = "done"

\* the positions of the input whose element satisfies the predicate
Matching == { i \in 1..Len(req.list.elems) : req.list.elems[i] \in req.fn }

\* the k-th matching position, counted from the front
KthMatching(k) == CHOOSE i \in Matching : Cardinality({ j \in Matching : j <= i }) = k

\* C15: for every list and predicate, Filter returns exactly the elements
\* that satisfy the predicate, in their original relative order and with
\* duplicates kept (an empty, non-nil list when none match), and the input
\* list is left unchanged.
C15_FilterKeepsMatchingInOrder ==
    FilterDone =>
        /\ ~ret.out.nil
        /\ Len(ret.out.elems) = Cardinality(Matching)
        /\ \A k \in 1..Len(ret.out.elems) :
               ret.out.elems[k] = req.list.elems[KthMatching(k)]
        /\ Matching = {} => ret.out = MakeEmpty
        /\ ret.list = req.list

C15_Witness ==
    /\ FilterDone
    /\ Len(ret.out.elems) = 2
    /\ ret.out.elems[1] = ret.out.elems[2]
    /\ Len(req.list.elems) = 3
    /\ req.list.elems[2] \notin req.fn

====
